---------------------------- MODULE Spec2Model ----------------------------
(***************************************************************************)
(* Model of fakeDataGenerator/pointsToOutwardDigraph.py.                   *)
(*                                                                         *)
(* Two functions of the module are modelled as state machines:             *)
(*   graphFromTriangulation(triang, nSeeds)   specification SpecBuild      *)
(*   friendly_rename(graph, name_prefix)      specification SpecRename     *)
(*                                                                         *)
(* Both work on python-graph's `digraph`.  A digraph value is the record   *)
(*   node_neighbors  : node -> list of successors     (insertion order)    *)
(*   node_incidence  : node -> list of predecessors   (insertion order)    *)
(*   node_attr       : node -> list of attributes                          *)
(*   edge_properties : (u, v) -> [weight, label]                           *)
(*   edge_attr       : (u, v) -> list of attributes                        *)
(* which are the dictionaries the class keeps.  Its methods are modelled   *)
(* with the exceptions they raise: a result is [exc, g] or [exc, value],   *)
(* exc = "None" when the call returns normally.                            *)
(*                                                                         *)
(* Strings are sequences of character codes.  A float computed by          *)
(* math.sqrt(x) is represented exactly, by its radicand x.                 *)
(***************************************************************************)
EXTENDS Integers, Sequences, FiniteSets, TLC

VARIABLES
    pc,            \* position of the running call
    exc,           \* exception the call ended with, "None" otherwise
    points,        \* triang.points: the coordinate vectors, in input order
    nSeeds,        \* graphFromTriangulation's nSeeds
    vertices,      \* triang.vertices: the simplices iterated so far
    index,         \* position of the running for loop
    graph,         \* the digraph under construction / friendly_rename's input
    order,         \* graph.nodes(): the node iteration order of the input
    name_prefix,   \* friendly_rename's name_prefix
    nextLetter,
    nextNumber,
    identifierMap,
    newGraph

vars == <<pc, exc, points, nSeeds, vertices, index, graph, order, name_prefix,
          nextLetter, nextNumber, identifierMap, newGraph>>

-----------------------------------------------------------------------------
(* Bounds of the model *)

MaxPoints == 4       \* longest point sequence
MaxPlex == 2         \* most simplices iterated in one build
MaxFull == 3         \* friendly_rename: graphs of up to MaxFull nodes have any edges
MaxNodes == 28       \* friendly_rename: most nodes of an input graph

\* the coordinate vectors points are drawn from (two-dimensional)
Grid == {<<0, 0>>, <<1, 0>>, <<0, 1>>, <<1, 1>>}

-----------------------------------------------------------------------------
(* Generic helpers *)

Range(s) == {s[i] : i \in DOMAIN s}

SeqsUpTo(S, n) == UNION {[1..k -> S] : k \in 0..n}

-----------------------------------------------------------------------------
(* python-graph digraph *)

EmptyDigraph ==
    [node_neighbors |-> <<>>, node_incidence |-> <<>>, node_attr |-> <<>>,
     edge_properties |-> <<>>, edge_attr |-> <<>>]

Nodes(g) == DOMAIN g.node_neighbors

\* edges(): every (n, neighbour) of node_neighbors
Edges(g) == UNION {{<<u, v>> : v \in Range(g.node_neighbors[u])} : u \in Nodes(g)}

has_edge(g, edge) == edge \in DOMAIN g.edge_properties

add_node(g, node, attrs) ==
    IF node \in DOMAIN g.node_neighbors
    THEN [exc |-> "AdditionError", g |-> g]
    ELSE [exc |-> "None",
          g |-> [g EXCEPT !.node_neighbors = @ @@ (node :> <<>>),
                          !.node_incidence = @ @@ (node :> <<>>),
                          !.node_attr = @ @@ (node :> attrs)]]

add_edge(g, edge, wt, label, attrs) ==
    LET u == edge[1]
        v == edge[2]
    IN  IF u \notin DOMAIN g.node_neighbors \/ v \notin DOMAIN g.node_neighbors
        THEN [exc |-> "AdditionError", g |-> g]
        ELSE IF v \in Range(g.node_neighbors[u]) /\ u \in Range(g.node_incidence[v])
        THEN [exc |-> "AdditionError", g |-> g]
        ELSE [exc |-> "None",
              g |-> [g EXCEPT
                       !.node_neighbors[u] = Append(@, v),
                       !.node_incidence[v] = Append(@, u),
                       !.edge_properties =
                           (edge :> [weight |-> wt, label |-> label]) @@ @,
                       !.edge_attr =
                           IF attrs = <<>> THEN @
                           ELSE (edge :> (IF edge \in DOMAIN @ THEN @[edge]
                                          ELSE <<>>) \o attrs) @@ @]]

incidents(g, node) == g.node_incidence[node]

node_attributes(g, node) == g.node_attr[node]

edge_weight(g, edge) == g.edge_properties[edge].weight

edge_label(g, edge) == g.edge_properties[edge].label

edge_attributes(g, edge) ==
    IF edge \in DOMAIN g.edge_attr THEN g.edge_attr[edge] ELSE <<>>

-----------------------------------------------------------------------------
(* euclideanDistance *)

math_sqrt(x) == [radicand |-> x]

RECURSIVE SumSquares(_, _)
SumSquares(a, b) ==
    IF a = <<>> \/ b = <<>> THEN 0
    ELSE LET diff == a[1] - b[1]
         IN  diff * diff + SumSquares(Tail(a), Tail(b))

\* ssquare assigned instead of accumulated: only the last axis counts
euclideanDistanceLastAxis(twople) ==
    LET a == twople[1]
        b == twople[2]
        diff == a[Len(a)] - b[Len(b)]
    IN  [exc |-> "None", value |-> math_sqrt(diff * diff)]

\* lines 18-35
euclideanDistance(twople) ==
    IF Len(twople) # 2
    THEN [exc |-> "ValueError", value |-> math_sqrt(0)]
    ELSE LET a == twople[1]
             b == twople[2]
         IN  IF Len(a) # Len(b)
             THEN [exc |-> "ValueError", value |-> math_sqrt(0)]
             ELSE [exc |-> "None", value |-> math_sqrt(SumSquares(a, b))]

-----------------------------------------------------------------------------
(* graphFromTriangulation *)

\* line 54: pointTuples[i] is the tuple of the i-th point (0-based)
pointTuples(i) == points[i + 1]

\* lines 58-61
node_color(i, seeds) == IF i < seeds THEN "red" ELSE "black"

\* itertools.combinations(plex, 2): position pairs in lexicographic order
RECURSIVE combinations2(_)
combinations2(plex) ==
    IF Len(plex) < 2 THEN <<>>
    ELSE [k \in 1..(Len(plex) - 1) |-> <<plex[1], plex[k + 1]>>]
         \o combinations2(Tail(plex))

CanonicalNoSwap(src, dest) ==
    IF src = dest THEN <<>> ELSE <<src, dest>>

\* lines 66-69: "skip" for a self pair, otherwise the pair pointing down the list
Canonical(src, dest) ==
    IF src = dest THEN <<>>
    ELSE IF src > dest THEN <<dest, src>>
    ELSE <<src, dest>>

SeedDestOffByOne(dest, seeds) == dest < seeds - 1

\* line 71
SeedDest(dest, seeds) == dest < seeds

InsertEdgeUnchecked(g, edge) ==
    LET d == euclideanDistance(edge)
    IN  IF d.exc # "None" THEN [exc |-> d.exc, g |-> g]
        ELSE add_edge(g, edge, d.value, <<>>, <<>>)

\* lines 76-77
InsertEdge(g, edge) ==
    IF ~has_edge(g, edge)
    THEN LET d == euclideanDistance(edge)
         IN  IF d.exc # "None" THEN [exc |-> d.exc, g |-> g]
             ELSE add_edge(g, edge, d.value, <<>>, <<>>)
    ELSE [exc |-> "None", g |-> g]

\* lines 66-77: the body of the inner loop for one pair
ProcessPair(g, pair, seeds) ==
    LET c == Canonical(pair[1], pair[2])
    IN  IF c = <<>> THEN [exc |-> "None", g |-> g]
        ELSE IF SeedDest(c[2], seeds) THEN [exc |-> "None", g |-> g]
        ELSE InsertEdge(g, <<pointTuples(c[1]), pointTuples(c[2])>>)

\* line 65: the inner loop, an exception ends it
RECURSIVE ProcessPairs(_, _, _)
ProcessPairs(g, pairs, seeds) ==
    IF pairs = <<>> THEN [exc |-> "None", g |-> g]
    ELSE LET r == ProcessPair(g, pairs[1], seeds)
         IN  IF r.exc # "None" THEN r
             ELSE ProcessPairs(r.g, Tail(pairs), seeds)

ProcessPlex(g, plex, seeds) == ProcessPairs(g, combinations2(plex), seeds)

\* the simplices a triangulation of n points may deliver: index triples in
\* either orientation, and collapsed ones
Simplices(n) ==
    {t \in [1..3 -> 0..(n - 1)] :
        \/ t[1] < t[2] /\ t[2] < t[3]
        \/ t[1] > t[2] /\ t[2] > t[3]
        \/ t[1] = t[2] /\ t[2] = t[3]}

InitBuild ==
    /\ pc = "b_nodes"
    /\ exc = "None"
    /\ points \in SeqsUpTo(Grid, MaxPoints)
    /\ nSeeds \in 0..(MaxPoints + 1)
    /\ vertices = <<>>
    /\ index = 0
    /\ graph = EmptyDigraph
    /\ order = <<>>
    /\ name_prefix = <<>>
    /\ nextLetter = 0
    /\ nextNumber = 0
    /\ identifierMap = <<>>
    /\ newGraph = EmptyDigraph

renameVars == <<order, name_prefix, nextLetter, nextNumber, identifierMap, newGraph>>

\* lines 57-62, one iteration
AddNode ==
    /\ pc = "b_nodes"
    /\ index < Len(points)
    /\ LET r == add_node(graph, pointTuples(index),
                         <<(<<"color", node_color(index, nSeeds)>>)>>)
       IN  IF r.exc # "None"
           THEN /\ pc' = "b_raised"
                /\ exc' = r.exc
                /\ UNCHANGED <<graph, index>>
           ELSE /\ graph' = r.g
                /\ index' = index + 1
                /\ UNCHANGED <<pc, exc>>
    /\ UNCHANGED <<points, nSeeds, vertices>>
    /\ UNCHANGED renameVars

\* line 64: the node loop is over, the loop over triang.vertices starts
StartEdges ==
    /\ pc = "b_nodes"
    /\ index = Len(points)
    /\ pc' = "b_edges"
    /\ index' = 0
    /\ UNCHANGED <<exc, points, nSeeds, vertices, graph>>
    /\ UNCHANGED renameVars

\* lines 64-77, one iteration of the outer loop
NextPlex ==
    /\ pc = "b_edges"
    /\ index < MaxPlex
    /\ \E plex \in Simplices(Len(points)) :
          LET r == ProcessPlex(graph, plex, nSeeds)
          IN  /\ vertices' = Append(vertices, plex)
              /\ IF r.exc # "None"
                 THEN /\ pc' = "b_raised"
                      /\ exc' = r.exc
                      /\ UNCHANGED <<graph, index>>
                 ELSE /\ graph' = r.g
                      /\ index' = index + 1
                      /\ UNCHANGED <<pc, exc>>
    /\ UNCHANGED <<points, nSeeds>>
    /\ UNCHANGED renameVars

\* line 79
ReturnGraph ==
    /\ pc = "b_edges"
    /\ pc' = "b_done"
    /\ UNCHANGED <<exc, points, nSeeds, vertices, index, graph>>
    /\ UNCHANGED renameVars

NextBuild == AddNode \/ StartEdges \/ NextPlex \/ ReturnGraph

SpecBuild == InitBuild /\ [][NextBuild]_vars

-----------------------------------------------------------------------------
(* friendly_rename *)

\* the characters of codes 48 (digit zero) to 95 (underscore), in code order
Ascii ==
    <<"0", "1", "2", "3", "4", "5", "6", "7", "8", "9",
      ":", ";", "<", "=", ">", "?", "@",
      "A", "B", "C", "D", "E", "F", "G", "H", "I", "J", "K", "L", "M",
      "N", "O", "P", "Q", "R", "S", "T", "U", "V", "W", "X", "Y", "Z",
      "[", "\\", "]", "^", "_">>

OrdZero == 48        \* code of the digit zero
OrdA == 65           \* code of the letter A

chr(code) == Ascii[code - OrdZero + 1]

\* str(n) of an integer n >= 0: its decimal digits
RECURSIVE str(_)
str(n) ==
    IF n < 10 THEN <<chr(OrdZero + n)>>
    ELSE str(n \div 10) \o <<chr(OrdZero + (n % 10))>>

\* the letter wrapped around after 'Z'
LetterIdentifierWrapped(prefix, letter) ==
    prefix \o <<chr(OrdA + ((letter - OrdA) % 26))>>

\* line 107
LetterIdentifier(prefix, letter) == prefix \o <<chr(letter)>>

\* line 110
NumberIdentifier(prefix, number) == <<"@">> \o prefix \o str(number)

\* lines 106-113: the body of the node loop for one node.  The result holds
\* every object the body can reach, the input graph included.
RenameNodeBody(g, prefix, letter, number, idMap, ng, node) ==
    LET leaf == incidents(g, node) = <<>>
        identifier == IF leaf THEN LetterIdentifier(prefix, letter)
                      ELSE NumberIdentifier(prefix, number)
        r == add_node(ng, identifier, node_attributes(g, node))
    IN  [exc |-> r.exc,
         graph |-> g,
         nextLetter |-> IF leaf THEN letter + 1 ELSE letter,
         nextNumber |-> IF leaf THEN number ELSE number + 1,
         newGraph |-> r.g,
         identifierMap |-> IF r.exc = "None" THEN (node :> identifier) @@ idMap
                           ELSE idMap]

\* the edge copied without its weight (add_edge's default, 1)
CopyEdgeBodyDefaultWeight(g, idMap, ng, edge) ==
    LET r == add_edge(ng, <<idMap[edge[1]], idMap[edge[2]]>>, 1,
                      edge_label(g, edge), edge_attributes(g, edge))
    IN  [exc |-> r.exc, graph |-> g, newGraph |-> r.g]

\* the edge moved: copied, then deleted from the input (del_edge)
CopyEdgeBodyMoving(g, idMap, ng, edge) ==
    LET r == add_edge(ng, <<idMap[edge[1]], idMap[edge[2]]>>, edge_weight(g, edge),
                      edge_label(g, edge), edge_attributes(g, edge))
        keep(l, x) == SelectSeq(l, LAMBDA y : y # x)
    IN  [exc |-> r.exc,
         graph |-> [g EXCEPT
                      !.node_neighbors[edge[1]] = keep(@, edge[2]),
                      !.node_incidence[edge[2]] = keep(@, edge[1]),
                      !.edge_properties = [e \in DOMAIN @ \ {edge} |-> @[e]],
                      !.edge_attr = [e \in DOMAIN @ \ {edge} |-> @[e]]],
         newGraph |-> r.g]

\* lines 116-122: the body of the edge loop for one edge
CopyEdgeBody(g, idMap, ng, edge) ==
    LET weight == edge_weight(g, edge)
        label == edge_label(g, edge)
        src == idMap[edge[1]]
        dest == idMap[edge[2]]
        attrs == edge_attributes(g, edge)
        r == add_edge(ng, <<src, dest>>, weight, label, attrs)
    IN  [exc |-> r.exc, graph |-> g, newGraph |-> r.g]

\* graph.edges(): the (n, neighbour) pairs, nodes in iteration order
RECURSIVE EdgeList(_, _)
EdgeList(g, nodes) ==
    IF nodes = <<>> THEN <<>>
    ELSE [k \in 1..Len(g.node_neighbors[nodes[1]]) |->
             <<nodes[1], g.node_neighbors[nodes[1]][k]>>]
         \o EdgeList(g, Tail(nodes))

(* The input graphs: nodes 1..n; up to MaxFull nodes every set of edges      *)
(* between distinct nodes, above that node 1 pointing at the nodes after    *)
(* the first m.  A plain graph has default weights, labels and attributes,  *)
(* a rich one has its own on every node and edge.                           *)

RECURSIVE SetToSeq(_)
SetToSeq(S) ==
    IF S = {} THEN <<>>
    ELSE LET m == CHOOSE x \in S : \A y \in S : x <= y
         IN  <<m>> \o SetToSeq(S \ {m})

EdgeSets(n) ==
    IF n <= MaxFull
    THEN SUBSET {e \in (1..n) \X (1..n) : e[1] # e[2]}
    ELSE {{<<1, v>> : v \in (m + 1)..n} : m \in 1..n}

MakeGraph(n, E, rich) ==
    [node_neighbors |-> [u \in 1..n |-> SetToSeq({v \in 1..n : <<u, v>> \in E})],
     node_incidence |-> [v \in 1..n |-> SetToSeq({u \in 1..n : <<u, v>> \in E})],
     node_attr |-> [u \in 1..n |->
                      IF rich
                      THEN <<(<<"color", IF u % 2 = 1 THEN "red" ELSE "black">>)>>
                      ELSE <<>>],
     edge_properties |-> [e \in E |->
                            IF rich
                            THEN [weight |-> 100 * e[1] + e[2],
                                  label |-> <<"e">> \o str(e[1]) \o str(e[2])]
                            ELSE [weight |-> 1, label |-> <<>>]],
     edge_attr |-> IF rich THEN [e \in E |-> <<(<<"from", e[1]>>)>>] ELSE <<>>]

Prefixes == {<<>>, <<"@">>, <<"G", "1">>}

InitRename ==
    /\ pc = "r_nodes"
    /\ exc = "None"
    /\ points = <<>>
    /\ nSeeds = 0
    /\ vertices = <<>>
    /\ index = 0
    /\ \E n \in 0..MaxNodes : \E E \in EdgeSets(n) : \E rich \in BOOLEAN :
          /\ graph = MakeGraph(n, E, rich)
          /\ order \in {[i \in 1..n |-> i], [i \in 1..n |-> n + 1 - i]}
    /\ name_prefix \in Prefixes
    /\ nextLetter = OrdA
    /\ nextNumber = 1
    /\ identifierMap = <<>>
    /\ newGraph = EmptyDigraph

buildVars == <<points, nSeeds, vertices>>

\* lines 105-113, one iteration
RenameNode ==
    /\ pc = "r_nodes"
    /\ index < Len(order)
    /\ LET r == RenameNodeBody(graph, name_prefix, nextLetter, nextNumber,
                               identifierMap, newGraph, order[index + 1])
       IN  /\ graph' = r.graph
           /\ nextLetter' = r.nextLetter
           /\ nextNumber' = r.nextNumber
           /\ IF r.exc # "None"
              THEN /\ pc' = "r_raised"
                   /\ exc' = r.exc
                   /\ UNCHANGED <<index, identifierMap, newGraph>>
              ELSE /\ newGraph' = r.newGraph
                   /\ identifierMap' = r.identifierMap
                   /\ index' = index + 1
                   /\ UNCHANGED <<pc, exc>>
    /\ UNCHANGED <<order, name_prefix>>
    /\ UNCHANGED buildVars

\* line 115: the node loop is over, the loop over graph.edges() starts
StartCopy ==
    /\ pc = "r_nodes"
    /\ index = Len(order)
    /\ pc' = "r_edges"
    /\ index' = 0
    /\ UNCHANGED <<exc, graph, order, name_prefix, nextLetter, nextNumber,
                   identifierMap, newGraph>>
    /\ UNCHANGED buildVars

\* lines 115-122, one iteration
CopyEdge ==
    /\ pc = "r_edges"
    /\ index < Len(EdgeList(graph, order))
    /\ LET r == CopyEdgeBody(graph, identifierMap, newGraph,
                             EdgeList(graph, order)[index + 1])
       IN  /\ graph' = r.graph
           /\ IF r.exc # "None"
              THEN /\ pc' = "r_raised"
                   /\ exc' = r.exc
                   /\ UNCHANGED <<index, newGraph>>
              ELSE /\ newGraph' = r.newGraph
                   /\ index' = index + 1
                   /\ UNCHANGED <<pc, exc>>
    /\ UNCHANGED <<order, name_prefix, nextLetter, nextNumber, identifierMap>>
    /\ UNCHANGED buildVars

\* line 124
ReturnNewGraph ==
    /\ pc = "r_edges"
    /\ index = Len(EdgeList(graph, order))
    /\ pc' = "r_done"
    /\ UNCHANGED <<exc, index, graph, order, name_prefix, nextLetter, nextNumber,
                   identifierMap, newGraph>>
    /\ UNCHANGED buildVars

NextRename == RenameNode \/ StartCopy \/ CopyEdge \/ ReturnNewGraph

SpecRename == InitRename /\ [][NextRename]_vars

-----------------------------------------------------------------------------
(* Properties of graphFromTriangulation *)

Built == pc \in {"b_edges", "b_done"}

\* the 0-based positions at which coordinate vector p occurs in points
IndexesOf(p) == {i \in 0..(Len(points) - 1) : points[i + 1] = p}

NoDuplicates(s) == \A i, j \in DOMAIN s : s[i] = s[j] => i = j

\* C1: in every state of a build, every edge (src, dst) of the graph has
\* index(src) < index(dst); in particular no edge is a self-edge.
C1_EdgesPointOutward ==
    \A e \in Edges(graph) :
        /\ e[1] # e[2]
        /\ \A i \in IndexesOf(e[1]), j \in IndexesOf(e[2]) : i < j

\* a finished build that iterated a descending simplex and kept edges of it
C1_Witness ==
    /\ pc = "b_done"
    /\ \E k \in DOMAIN vertices :
          /\ vertices[k][1] > vertices[k][2]
          /\ <<pointTuples(vertices[k][2]), pointTuples(vertices[k][1])>>
                \in Edges(graph)
    /\ \E k \in DOMAIN vertices : vertices[k][1] = vertices[k][2]

\* C2: in every state of a build, no edge has a destination whose index is
\* below nSeeds: every seed node has no incoming edge.
C2_SeedsHaveNoIncoming ==
    /\ \A e \in Edges(graph) : \A j \in IndexesOf(e[2]) : j >= nSeeds
    /\ \A i \in 0..(Len(points) - 1) :
          (i < nSeeds /\ pointTuples(i) \in Nodes(graph))
             => incidents(graph, pointTuples(i)) = <<>>

\* a finished build with edges whose simplices held a pair of two seeds
C2_Witness ==
    /\ pc = "b_done"
    /\ nSeeds >= 2
    /\ Edges(graph) # {}
    /\ \E k \in DOMAIN vertices :
          \E a, b \in Range(vertices[k]) : a < b /\ b < nSeeds

\* the reference edge set: (i, j), i < j, some simplex holds both, j >= nSeeds
ReferencePairs ==
    {ij \in (0..(Len(points) - 1)) \X (0..(Len(points) - 1)) :
        /\ ij[1] < ij[2]
        /\ ij[2] >= nSeeds
        /\ \E k \in DOMAIN vertices :
              ij[1] \in Range(vertices[k]) /\ ij[2] \in Range(vertices[k])}

SquaredDistance(p, q) ==
    (p[1] - q[1]) * (p[1] - q[1]) + (p[2] - q[2]) * (p[2] - q[2])

ExamplePoints == <<(<<0, 0>>), (<<1, 0>>), (<<0, 1>>), (<<1, 1>>)>>

ExampleInput ==
    /\ points = ExamplePoints
    /\ nSeeds = 1
    /\ Range(vertices) = {<<0, 1, 2>>, <<1, 2, 3>>}

ExampleEdges == {<<0, 1>>, <<0, 2>>, <<1, 2>>, <<1, 3>>, <<2, 3>>}

\* C3: the edge set a build returns is the reference set, each edge weighted
\* by the distance of its end points; the example input yields the five
\* edges (0,1),(0,2),(1,2),(1,3),(2,3).
C3_EdgeSetIsReference ==
    pc = "b_done" =>
        /\ Edges(graph) =
              {<<pointTuples(ij[1]), pointTuples(ij[2])>> : ij \in ReferencePairs}
        /\ Edges(graph) = DOMAIN graph.edge_properties
        /\ \A e \in Edges(graph) :
              edge_weight(graph, e) = math_sqrt(SquaredDistance(e[1], e[2]))
        /\ ExampleInput =>
              Edges(graph) =
                 {<<pointTuples(ij[1]), pointTuples(ij[2])>> : ij \in ExampleEdges}

\* the example of the specification, built
C3_Witness ==
    /\ pc = "b_done"
    /\ ExampleInput
    /\ Cardinality(Edges(graph)) = 5
    /\ edge_weight(graph, <<(<<1, 0>>), (<<0, 1>>)>>) = math_sqrt(2)

\* the build of the same nodes from the simplices in another order
RECURSIVE AddNodes(_, _)
AddNodes(g, i) ==
    IF i >= Len(points) THEN g
    ELSE AddNodes(add_node(g, pointTuples(i),
                           <<(<<"color", node_color(i, nSeeds)>>)>>).g, i + 1)

RECURSIVE BuildFrom(_, _)
BuildFrom(g, plexes) ==
    IF plexes = <<>> THEN g
    ELSE BuildFrom(ProcessPlex(g, plexes[1], nSeeds).g, Tail(plexes))

Reverse(s) == [i \in 1..Len(s) |-> s[Len(s) + 1 - i]]

\* C4: edge insertion is idempotent.  A step that iterates a simplex never
\* raises a duplicate-insertion error, never stores a pair twice, keeps every
\* edge it found with its weight, and leaves the graph unchanged when the
\* simplex was iterated before; the returned edges and weights are those of
\* the build that iterates the simplices in reverse order.
C4_IdempotentInsertion ==
    [][ /\ (pc = "b_edges" /\ vertices' # vertices) =>
              /\ exc' # "AdditionError"
              /\ \A n \in Nodes(graph') :
                    /\ NoDuplicates(graph'.node_neighbors[n])
                    /\ NoDuplicates(graph'.node_incidence[n])
              /\ \A e \in Edges(graph) :
                    /\ e \in Edges(graph')
                    /\ edge_weight(graph', e) = edge_weight(graph, e)
              /\ vertices'[Len(vertices')] \in Range(vertices) => graph' = graph
        /\ pc' = "b_done" =>
              graph'.edge_properties =
                 BuildFrom(AddNodes(EmptyDigraph, 0), Reverse(vertices)).edge_properties
      ]_vars

\* a finished build that iterated the same simplex twice and one sharing a pair
C4_Witness ==
    /\ pc = "b_done"
    /\ Len(vertices) = 2
    /\ Edges(graph) # {}
    /\ vertices[1] = vertices[2]

\* C5: a build with nSeeds above the number of points, or with no points,
\* fails (InsufficientSeeds, EmptyPointSet): it never returns a graph.
C5_BadInputNeverReturns ==
    pc = "b_done" => (Len(points) > 0 /\ nSeeds <= Len(points))

\* C6: a build never fails on its points, and once the node loop is over the
\* graph has one node per position, tagged by the position's seed status.
C6_OneNodePerPosition ==
    /\ exc # "AdditionError"
    /\ Built =>
          /\ Cardinality(Nodes(graph)) = Len(points)
          /\ \A i \in 0..(Len(points) - 1) :
                node_attributes(graph, pointTuples(i)) =
                   <<(<<"color", IF i < nSeeds THEN "red" ELSE "black">>)>>

-----------------------------------------------------------------------------
(* Properties of friendly_rename *)

Renaming == pc \in {"r_nodes", "r_edges", "r_done", "r_raised"}

Leaf(node) == incidents(graph, node) = <<>>

Letters == {"A", "B", "C", "D", "E", "F", "G", "H", "I", "J", "K", "L", "M",
            "N", "O", "P", "Q", "R", "S", "T", "U", "V", "W", "X", "Y", "Z"}

\* how many nodes of node's class (leaf or not) are visited up to node
ClassRank(node) ==
    LET pos == CHOOSE i \in DOMAIN order : order[i] = node
    IN  Cardinality({i \in 1..pos : Leaf(order[i]) = Leaf(node)})

\* C7: the graph friendly_rename returns is isomorphic to its input under
\* the identifier map: as many nodes and edges, (u, v) an input edge iff
\* (id(u), id(v)) is an output edge, with the same weight, label and
\* attributes, every node with the same attributes; the call does not raise.
C7_RenameIsIsomorphism ==
    /\ pc # "r_raised"
    /\ pc = "r_done" =>
          /\ DOMAIN identifierMap = Nodes(graph)
          /\ Cardinality(Nodes(newGraph)) = Cardinality(Nodes(graph))
          /\ Cardinality(Edges(newGraph)) = Cardinality(Edges(graph))
          /\ Edges(newGraph) = DOMAIN newGraph.edge_properties
          /\ \A u, v \in Nodes(graph) :
                <<u, v>> \in Edges(graph)
                   <=> <<identifierMap[u], identifierMap[v]>> \in Edges(newGraph)
          /\ \A e \in Edges(graph) :
                LET ne == <<identifierMap[e[1]], identifierMap[e[2]]>>
                IN  /\ edge_weight(newGraph, ne) = edge_weight(graph, e)
                    /\ edge_label(newGraph, ne) = edge_label(graph, e)
                    /\ edge_attributes(newGraph, ne) = edge_attributes(graph, e)
          /\ \A u \in Nodes(graph) :
                node_attributes(newGraph, identifierMap[u]) = node_attributes(graph, u)

\* a renamed graph with edges in both directions, own weights and attributes
C7_Witness ==
    /\ pc = "r_done"
    /\ {<<1, 2>>, <<2, 1>>, <<3, 1>>} \subseteq Edges(graph)
    /\ edge_weight(graph, <<2, 1>>) = 201
    /\ edge_weight(newGraph, <<identifierMap[2], identifierMap[1]>>) = 201

\* C8: no step of friendly_rename changes its input graph.
C8_InputNotMutated ==
    [][Renaming => (graph' = graph /\ order' = order)]_vars

\* a finished renaming of a graph with edges, all of them copied
C8_Witness ==
    /\ pc = "r_done"
    /\ Cardinality(Edges(graph)) >= 3
    /\ Cardinality(Edges(newGraph)) = Cardinality(Edges(graph))
    /\ Nodes(newGraph) = Range(identifierMap)

\* C9: every renamed node without incoming edges has identifier prefix +
\* letter, the letter one of the 26 of the alphabet, taken in visitation order
\* from 'A'; every other node has "@" + prefix + n, n its 1-based rank among
\* the visited nodes with incoming edges.
C9_IdentifiersByInDegree ==
    Renaming =>
        \A node \in DOMAIN identifierMap :
            IF Leaf(node)
            THEN /\ \E c \in Letters : identifierMap[node] = name_prefix \o <<c>>
                 /\ identifierMap[node] =
                       name_prefix \o <<chr(OrdA + ClassRank(node) - 1)>>
            ELSE identifierMap[node] =
                    <<"@">> \o name_prefix \o str(ClassRank(node))

\* C10: the identifier assignment is one-to-one: no two nodes share an
\* identifier, no identifier is refused as already used, and the identifiers
\* given are exactly the nodes of the new graph.
C10_IdentifiersAreBijection ==
    Renaming =>
        /\ pc # "r_raised"
        /\ \A u, v \in DOMAIN identifierMap :
              identifierMap[u] = identifierMap[v] => u = v
        /\ Nodes(newGraph) = Range(identifierMap)
        /\ pc \in {"r_edges", "r_done"} => DOMAIN identifierMap = Nodes(graph)

\* a finished renaming with more leaves than letters, and numbered nodes
C10_Witness ==
    /\ pc = "r_done"
    /\ Cardinality({n \in Nodes(graph) : Leaf(n)}) > Cardinality(Letters)
    /\ \E n \in Nodes(graph) : ~Leaf(n)
    /\ name_prefix = <<"@">>

=============================================================================
